---- MODULE Spec2Model ----
(***************************************************************************)
(* A model of batch_address_screen.py: the loop that screens the addresses *)
(* of a CSV file through the remote API (process_addresses), the raw JSON  *)
(* dump (save_raw_json), the normalisation of the response documents into  *)
(* a fixed-width table (process_responses) and main, which runs them.      *)
(*                                                                         *)
(* Python values are tagged records, so that isinstance(v, dict), `not v`  *)
(* and pd.isna can be computed: None, Str(s), Num(n), List(<<...>>) and     *)
(* Dict(<< <<key, value>>, ... >>).  A dict keeps its insertion order, as  *)
(* Python's does.  NaN and None are both the null value None.              *)
(***************************************************************************)
EXTENDS Integers, Sequences, FiniteSets, TLC

VARIABLES
    pc,             \* position of main / process_addresses
    df_in,          \* the address column of the input CSV (read_input_file)
    index,          \* the row process_addresses is at
    request,        \* status_code of the POST of the current row
    responses,      \* the list process_addresses builds and main passes on
    log,            \* the HTTP exchanges so far: <<method, row, status_code>>
    appended,       \* for each element of responses, the row it was fetched for
    returned,       \* the list as process_addresses returned it
    raw_json,       \* results/responses.json
    processed_data, \* what process_responses returned (or that it raised)
    output_csv,     \* results/Chainalysis_AddressScreeningAPI_Results.csv
    record,         \* a dict given to flatten_dict
    flat,           \* flatten_dict(record)
    reflat          \* flatten_dict(flatten_dict(record))

vars == <<pc, df_in, index, request, responses, log, appended, returned,
          raw_json, processed_data, output_csv, record, flat, reflat>>

-----------------------------------------------------------------------------
(* Bounds of the model *)

\* the rows of the input CSV
MaxRows == 2

\* the keys of a dict given to flatten_dict, those of its nested dicts counted
MaxKeys == 3

\* the size of a batch given to process_responses: its documents, their
\* exposure entries and identifications, their clusters, extra keys and
\* missing keys, all counted (Size)
MaxSize == 4

-----------------------------------------------------------------------------
(* Python values *)

None == [kind |-> "null"]

Str(s) == [kind |-> "str", val |-> s]

Num(n) == [kind |-> "num", val |-> n]

List(l) == [kind |-> "list", val |-> l]

Dict(items) == [kind |-> "dict", val |-> items]

isinstance_dict(v) == v.kind = "dict"

\* bool(v): what `not v` negates
truthy(v) ==
    CASE v.kind = "null" -> FALSE
      [] v.kind = "list" -> Len(v.val) > 0
      [] v.kind = "dict" -> Len(v.val) > 0
      [] v.kind = "str"  -> v.val # ""
      [] v.kind = "num"  -> v.val # 0

\* the keys of a dict's items, in insertion order
keys(items) == [i \in 1..Len(items) |-> items[i][1]]

has_key(items, k) == \E i \in 1..Len(items) : items[i][1] = k

\* d[k] for a key that is present
get(items, k) == items[CHOOSE i \in 1..Len(items) : items[i][1] = k][2]

\* d[k] = v: an existing key keeps its place, a new key goes last
setitem(items, k, v) ==
    IF has_key(items, k)
    THEN [i \in 1..Len(items) |-> IF items[i][1] = k THEN <<k, v>> ELSE items[i]]
    ELSE Append(items, <<k, v>>)

\* dict(items) of a list of pairs: the first occurrence of a key fixes its
\* place, the last one its value
dict_of(pairs) ==
    LET first(i) == \A j \in 1..(i - 1) : pairs[j][1] # pairs[i][1]
        last(k)  == CHOOSE i \in 1..Len(pairs) :
                        /\ pairs[i][1] = k
                        /\ \A j \in (i + 1)..Len(pairs) : pairs[j][1] # k
        kept     == SelectSeq([i \in 1..Len(pairs) |-> <<i, pairs[i][1]>>],
                              LAMBDA p : first(p[1]))
    IN  [n \in 1..Len(kept) |-> <<kept[n][2], pairs[last(kept[n][2])][2]>>]

RECURSIVE concat(_)
concat(seqs) == IF seqs = <<>> THEN <<>> ELSE Head(seqs) \o concat(Tail(seqs))

-----------------------------------------------------------------------------
(* process_responses.flatten_dict *)

sep == "_"

RECURSIVE flatten_items(_, _)
\* the list `items` that flatten_dict builds for the dict with items d
flatten_items(d, parent_key) ==
    LET new_key(k) == IF parent_key # "" THEN parent_key \o sep \o k ELSE k
        of(i) == IF isinstance_dict(d[i][2])
                 THEN dict_of(flatten_items(d[i][2].val, new_key(d[i][1])))
                 ELSE << <<new_key(d[i][1]), d[i][2]>> >>
    IN  concat([i \in 1..Len(d) |-> of(i)])

\* flatten_dict without the recursion: the items of a nested dict are taken as
\* they are, under the prefixed keys
flatten_dict_one_level(d, parent_key) ==
    LET new_key(k) == IF parent_key # "" THEN parent_key \o sep \o k ELSE k
        of(i) == IF isinstance_dict(d[i][2])
                 THEN [j \in 1..Len(d[i][2].val) |->
                          <<new_key(d[i][1]) \o sep \o d[i][2].val[j][1], d[i][2].val[j][2]>>]
                 ELSE << <<new_key(d[i][1]), d[i][2]>> >>
    IN  dict_of(concat([i \in 1..Len(d) |-> of(i)]))

flatten_dict(d, parent_key) == dict_of(flatten_items(d, parent_key))

-----------------------------------------------------------------------------
(* pandas: a DataFrame is its column labels, in order, and its rows, each a *)
(* function from the column labels to cells                                *)

Range(f) == {f[i] : i \in DOMAIN f}

\* pd.DataFrame(records) of a list of flat dicts: the columns are the keys in
\* the order they first appear, a key a record lacks is NaN in its row
DataFrame(records) ==
    LET columns == keys(dict_of(concat(records)))
    IN  [columns |-> columns,
         data    |-> [r \in 1..Len(records) |->
                        [c \in Range(columns) |->
                            IF has_key(records[r], c) THEN get(records[r], c)
                            ELSE None]]]

\* df[col] = values for every col of cols, in order (values[r][col] is the
\* cell of row r): a new label is appended, an existing column is overwritten
\* in place
df_assign(df, cols, values) ==
    LET columns == df.columns \o SelectSeq(cols, LAMBDA c : c \notin Range(df.columns))
        labels  == Range(cols)
    IN  [columns |-> columns,
         data    |-> [r \in 1..Len(df.data) |->
                        LET new == values[r]
                            old == df.data[r]
                        IN  [c \in Range(columns) |->
                                IF c \in labels THEN new[c] ELSE old[c]]]]

\* df.drop(col, axis=1), for a label the frame has
df_drop(df, col) ==
    LET columns == SelectSeq(df.columns, LAMBDA c : c # col)
    IN  [columns |-> columns,
         data    |-> [r \in 1..Len(df.data) |-> [c \in Range(columns) |-> df.data[r][c]]]]

\* df[cols], for labels the frame has
df_select(df, cols) ==
    [columns |-> cols,
     data    |-> [r \in 1..Len(df.data) |-> [c \in Range(cols) |-> df.data[r][c]]]]

-----------------------------------------------------------------------------
(* process_responses *)

all_categories ==
    << "atm", "child abuse material", "darknet market",
       "decentralized exchange contract", "exchange", "fee", "fraud shop",
       "gambling", "high risk exchange", "high risk jurisdiction",
       "hosted wallet", "ico", "illicit actor-org",
       "infrastructure as a service", "lending contract", "merchant services",
       "mining", "mining pool", "mixing", "none", "online pharmacy", "other",
       "p2p exchange", "protocol privacy", "ransomware", "sanctions", "scam",
       "smart contract", "stolen funds", "terrorist financing",
       "token smart contract", "unnamed service" >>

column_order ==
    << "address", "risk", "cluster_name", "cluster_category",
       "addressIdentifications_name", "addressIdentifications_category",
       "addressIdentifications_description" >> \o all_categories

\* the placeholder that replaces an empty addressIdentifications: [{}]
placeholder == List(<< Dict(<<>>) >>)

\* the first loop without lines 176-177: an empty list stays empty
fill_placeholders_skipped(rs) == rs

\* the first loop, up to the first response that has no addressIdentifications
\* key (response["addressIdentifications"] raises KeyError there): what it
\* leaves in the caller's list
fill_placeholders(rs) ==
    LET lacking == {i \in 1..Len(rs) : ~has_key(rs[i], "addressIdentifications")}
    IN  [i \in 1..Len(rs) |->
            IF /\ \A j \in lacking : i < j
               /\ ~truthy(get(rs[i], "addressIdentifications"))
            THEN setitem(rs[i], "addressIdentifications", placeholder)
            ELSE rs[i]]

\* the records one response appends to flattened_responses
flattened_of(response) ==
    LET ids == get(response, "addressIdentifications").val
    IN  [j \in 1..Len(ids) |->
            flatten_dict(setitem(response, "addressIdentifications", ids[j]), "")]

flattened_responses(rs) == concat([i \in 1..Len(rs) |-> flattened_of(rs[i])])

\* {exposure["category"]: exposure["value"] for exposure in response["exposures"]}
exposure_dict(response) ==
    LET exposures == get(response, "exposures").val
    IN  dict_of([j \in 1..Len(exposures) |->
                    <<get(exposures[j].val, "category"), get(exposures[j].val, "value")>>])

\* exposure_values[address]: the dict of the last response with that address
exposure_values(rs, address) ==
    LET last == CHOOSE i \in 1..Len(rs) :
                    /\ get(rs[i], "address") = address
                    /\ \A j \in (i + 1)..Len(rs) : get(rs[j], "address") # address
    IN  exposure_dict(rs[last])

\* the lambda with a catch-all: an entry of a category outside all_categories
\* is counted under "other"
exposure_cell_other(values, category) ==
    LET outside == {i \in 1..Len(values) :
                        \A n \in 1..Len(all_categories) : values[i][1] # Str(all_categories[n])}
    IN  IF has_key(values, Str(category)) THEN get(values, Str(category))
        ELSE IF category = "other" /\ outside # {}
        THEN values[CHOOSE i \in outside : TRUE][2]
        ELSE Num(0)

\* the lambda without its else branch's 0: a category with no entry is null
exposure_cell_null(values, category) ==
    IF has_key(values, Str(category)) THEN get(values, Str(category)) ELSE None

\* the cell the lambda of df.apply computes for one category, values being
\* exposure_values[row["address"]]
exposure_cell(values, category) ==
    IF has_key(values, Str(category)) THEN get(values, Str(category)) ELSE Num(0)

\* the cells the loop over all_categories computes for one row
exposure_cells(rs, row) ==
    LET values == exposure_values(rs, row["address"])
    IN  [category \in Range(all_categories) |-> exposure_cell(values, category)]

Raised(error, rs) == [ok |-> FALSE, error |-> error, responses |-> rs]

Returned(df, rs) == [ok |-> TRUE, columns |-> df.columns, data |-> df.data, responses |-> rs]

\* process_responses(responses): the table it returns, or the exception it
\* raises, and the caller's list as the call leaves it.  It raises KeyError at
\* line 176 for a response without addressIdentifications, at lines 190-192
\* for one without address or exposures; and the frame of an empty list has no
\* column at all: the assignment of line 233 raises ValueError (apply returns
\* an empty frame, which cannot be set as a column) and, in a pandas that lets
\* it pass, line 241 raises KeyError, there being no exposures column to drop
process_responses(rs) ==
    LET after == fill_placeholders(rs)
        df0   == DataFrame(flattened_responses(after))
        df1   == df_assign(df0, all_categories,
                           [r \in 1..Len(df0.data) |-> exposure_cells(after, df0.data[r])])
        df2   == df_drop(df1, "exposures")
        df3   == df_assign(df2, SelectSeq(column_order, LAMBDA c : c \notin Range(df2.columns)),
                           [r \in 1..Len(df2.data) |-> [c \in Range(column_order) |-> None]])
        df4   == df_select(df3, column_order)
    IN  IF \E i \in 1..Len(rs) : ~has_key(rs[i], "addressIdentifications")
        THEN Raised("KeyError", after)
        ELSE IF \E i \in 1..Len(rs) : ~has_key(rs[i], "address") \/ ~has_key(rs[i], "exposures")
        THEN Raised("KeyError", after)
        ELSE IF "exposures" \notin Range(df1.columns)
        THEN Raised("ValueError", after)
        ELSE Returned(df4, after)

-----------------------------------------------------------------------------
(* The inputs: addresses, and the documents the API answers with (spec, 6) *)

Addresses == {"addr1", "addr2"}

Risks == {"Low", "High"}

Clusters == {None, Dict(<< <<"name", Str("Sample Cluster")>>, <<"category", Str("exchange")>> >>)}

\* "nft" is not in all_categories
ExposureCategories == {"exchange", "nft"}

Exposure(category, value) == Dict(<< <<"category", Str(category)>>, <<"value", Num(value)>> >>)

Identification(i) ==
    Dict(<< <<"name", Str("Sample ID " \o ToString(i))>>,
            <<"category", Str("exchange")>>,
            <<"description", Str("Sample Desc")>> >>)

SeqsUpTo(S, n) == UNION {[1..k -> S] : k \in 0..n}

\* the value of the j-th entry of an exposures list: every entry of a list has
\* its own value, so that two entries of one category can be told apart
ExposureValue(j) == 10 * j + 1

ExposureListsOf(n) ==
    {[j \in 1..n |-> Exposure(cs[j], ExposureValue(j))] : cs \in [1..n -> ExposureCategories]}

IdListOf(n) == [i \in 1..n |-> Identification(i)]

Doc(address, risk, cluster, exposures, ids) ==
    << <<"address", Str(address)>>, <<"risk", Str(risk)>>, <<"cluster", cluster>>,
       <<"exposures", List(exposures)>>, <<"addressIdentifications", List(ids)>> >>

RequiredKeys == {"address", "exposures", "addressIdentifications"}

Without(d, k) == SelectSeq(d, LAMBDA p : p[1] # k)

\* the size of a document: one for the document, one for each exposure entry
\* and each identification, one for a cluster, one for each key beyond the
\* five of the schema and one for each required key that is missing
Size(d) ==
    1 + (IF has_key(d, "exposures") THEN Len(get(d, "exposures").val) ELSE 1)
      + (IF has_key(d, "addressIdentifications")
         THEN Len(get(d, "addressIdentifications").val) ELSE 1)
      + (IF has_key(d, "address") THEN 0 ELSE 1)
      + (IF has_key(d, "cluster") /\ isinstance_dict(get(d, "cluster")) THEN 1 ELSE 0)
      + (IF has_key(d, "riskReason") THEN 1 ELSE 0)

WellFormed ==
    UNION {UNION {{Doc(a, r, cl, e, IdListOf(ni)) :
                        a \in Addresses, r \in Risks, cl \in Clusters,
                        e \in ExposureListsOf(ne)} :
                  ni \in 0..(MaxSize - 1 - ne)} :
           ne \in 0..(MaxSize - 1)}

\* the irregular shapes: one more key (riskReason, as in tests.py), or a
\* required key missing
Plain == {d \in WellFormed : get(d, "risk") = Str("Low") /\ get(d, "cluster") = None}

WithRiskReason == {Append(d, <<"riskReason", Str("> 0% Exposure To Darknet Market")>>) : d \in Plain}

Malformed == {Without(d, k) : d \in Plain, k \in RequiredKeys}

Documents == {d \in WellFormed \cup WithRiskReason \cup Malformed : Size(d) <= MaxSize}

IsWellFormed(d) == \A k \in RequiredKeys : has_key(d, k)

-----------------------------------------------------------------------------
(* The remote API, as process_addresses sees it *)

Statuses == {200, 400, 500}

ErrorBody == << <<"message", Str("Bad Request")>> >>

\* what json.loads(response.text) gives for a GET of address with this status
Bodies(address, status) ==
    IF status = 200
    THEN {Doc(address, "Low", cl, <<>>, IdListOf(n)) : cl \in Clusters, n \in 0..(MaxSize - 2)}
    ELSE {ErrorBody}

-----------------------------------------------------------------------------
(* main and process_addresses *)

NoFile == [written |-> FALSE]

File(data) == [written |-> TRUE, data |-> data]

NotRun == [ran |-> FALSE]

Init ==
    /\ pc = "post"
    /\ df_in \in SeqsUpTo(Addresses, MaxRows)
    /\ index = 1
    /\ request = 0
    /\ responses = <<>>
    /\ log = <<>>
    /\ appended = <<>>
    /\ returned = <<>>
    /\ raw_json = NoFile
    /\ processed_data = NotRun
    /\ output_csv = NoFile
    /\ record = <<>>
    /\ flat = <<>>
    /\ reflat = <<>>

\* request.status_code in [400, 500]
is_error(status_code) == status_code \in {400, 500}

\* the status the check after the GET looks at (line 104)
get_checked(post_status, get_status) == post_status

\* the POST with one retry: after a first 400 or 500 the row is posted again
Post_retried(status) ==
    /\ pc = "post"
    /\ index <= Len(df_in)
    /\ request' = status
    /\ log' = Append(log, <<"POST", index, status>>)
    /\ IF is_error(status)
       THEN /\ pc' = "post"
            /\ index' = IF \E p \in 1..Len(log) : log[p][2] = index THEN index + 1 ELSE index
       ELSE pc' = "get" /\ index' = index
    /\ UNCHANGED <<record, flat, reflat, df_in, responses, appended, returned, raw_json,
                   processed_data, output_csv>>

\* the POST of the current row and the check of its status
Post(status) ==
    /\ pc = "post"
    /\ index <= Len(df_in)
    /\ request' = status
    /\ log' = Append(log, <<"POST", index, status>>)
    /\ IF is_error(status)
       THEN pc' = "post" /\ index' = index + 1
       ELSE pc' = "get" /\ index' = index
    /\ UNCHANGED <<record, flat, reflat, df_in, responses, appended, returned, raw_json, processed_data, output_csv>>

\* the GET of the current row, the check after it, and the append
Get(status) ==
    /\ pc = "get"
    /\ log' = Append(log, <<"GET", index, status>>)
    /\ IF is_error(get_checked(request, status))
       THEN UNCHANGED <<responses, appended>>
       ELSE \E body \in Bodies(df_in[index], status) :
                /\ responses' = Append(responses, body)
                /\ appended' = Append(appended, index)
    /\ pc' = "post"
    /\ index' = index + 1
    /\ UNCHANGED <<record, flat, reflat, df_in, request, returned, raw_json, processed_data, output_csv>>

\* requests.request raises (a timeout, no connection), or json.loads does on a
\* body that is no JSON: nothing catches it, main ends
Raise ==
    /\ pc \in {"post", "get"}
    /\ index <= Len(df_in)
    /\ pc' = "raised"
    /\ UNCHANGED <<record, flat, reflat, df_in, index, request, responses, log, appended, returned,
                   raw_json, processed_data, output_csv>>

\* main without line 315: it goes straight on to process_responses
after_process_addresses_unsaved == "parse"

\* what main does once process_addresses has returned (lines 314-315)
after_process_addresses == "save"

\* the loop is over: return responses
Return ==
    /\ pc = "post"
    /\ index > Len(df_in)
    /\ returned' = responses
    /\ pc' = after_process_addresses
    /\ UNCHANGED <<record, flat, reflat, df_in, index, request, responses, log, appended,
                   raw_json, processed_data, output_csv>>

save_raw_json ==
    /\ pc = "save"
    /\ raw_json' = File(responses)
    /\ pc' = "parse"
    /\ UNCHANGED <<record, flat, reflat, df_in, index, request, responses, log, appended, returned,
                   processed_data, output_csv>>

\* processed_data = process_responses(responses)
ProcessResponses ==
    /\ pc = "parse"
    /\ LET result == process_responses(responses)
       IN  /\ processed_data' = result
           /\ responses' = result.responses
           /\ pc' = IF result.ok THEN "csv" ELSE "raised"
    /\ UNCHANGED <<record, flat, reflat, df_in, index, request, log, appended, returned, raw_json, output_csv>>

save_output_csv ==
    /\ pc = "csv"
    /\ output_csv' = File([columns |-> processed_data.columns, data |-> processed_data.data])
    /\ pc' = "done"
    /\ UNCHANGED <<record, flat, reflat, df_in, index, request, responses, log, appended, returned,
                   raw_json, processed_data>>

Next ==
    \/ \E status \in Statuses : Post(status)
    \/ \E status \in Statuses : Get(status)
    \/ Raise
    \/ Return
    \/ save_raw_json
    \/ ProcessResponses
    \/ save_output_csv

Spec == Init /\ [][Next]_vars

\* a step of process_addresses: a request returns or raises, or the loop is over
process_addresses_step ==
    \/ \E status \in Statuses : Post(status)
    \/ \E status \in Statuses : Get(status)
    \/ Raise
    \/ Return

\* every call of requests.request has timeout=60, so it returns or raises, and
\* nothing else makes the loop wait: its next step is taken
SpecFair == Spec /\ WF_vars(process_addresses_step)

-----------------------------------------------------------------------------
(* process_responses called on its own, as tests.py does, on any batch *)

RECURSIVE BatchesWithin(_)
\* the batches of documents whose sizes add up to n at most
BatchesWithin(n) ==
    {<<>>} \cup UNION {{<<d>> \o b : d \in {x \in Documents : Size(x) = k},
                                     b \in BatchesWithin(n - k)} :
                        k \in 1..n}

Batches(n) == BatchesWithin(n)

InitPR ==
    /\ pc = "parse"
    /\ responses \in Batches(MaxSize)
    /\ df_in = <<>>
    /\ index = 1
    /\ request = 0
    /\ log = <<>>
    /\ appended = <<>>
    /\ returned = responses
    /\ raw_json = NoFile
    /\ processed_data = NotRun
    /\ output_csv = NoFile
    /\ record = <<>>
    /\ flat = <<>>
    /\ reflat = <<>>

NextPR == ProcessResponses

SpecPR == InitPR /\ [][NextPR]_vars

-----------------------------------------------------------------------------
(* flatten_dict called on its own, on any dict, and again on its result *)

Keys == {"a", "b", "a_b"}

\* the values that are no dict; a list is one, whatever it holds
Leaves == {None, Num(1), List(<< Dict(<< <<"a", Num(1)>> >>) >>)}

RECURSIVE KeyCount(_)
\* the keys of a dict, those of its nested dicts counted
KeyCount(d) ==
    IF d = <<>> THEN 0
    ELSE 1 + (IF isinstance_dict(Head(d)[2]) THEN KeyCount(Head(d)[2].val) ELSE 0)
           + KeyCount(Tail(d))

RECURSIVE RecordsOfSize(_)
\* the dicts of n keys: a dict has no key twice; its last item has a value
\* that is no dict (c = 1), or a dict of c - 1 keys
RecordsOfSize(n) ==
    IF n = 0 THEN {<<>>}
    ELSE UNION {LET values == (IF c = 1 THEN Leaves ELSE {})
                                  \cup {Dict(r) : r \in RecordsOfSize(c - 1)}
                    rests  == RecordsOfSize(n - c)
                IN  {r \in {Append(rest, <<k, v>>) : rest \in rests, k \in Keys, v \in values} :
                         ~has_key(SubSeq(r, 1, Len(r) - 1), r[Len(r)][1])} :
                c \in 1..n}

RecordsWithin(n) == UNION {RecordsOfSize(m) : m \in 0..n}

InitFD ==
    /\ pc = "flatten"
    /\ record \in RecordsWithin(MaxKeys)
    /\ flat = <<>>
    /\ reflat = <<>>
    /\ df_in = <<>>
    /\ index = 1
    /\ request = 0
    /\ responses = <<>>
    /\ log = <<>>
    /\ appended = <<>>
    /\ returned = <<>>
    /\ raw_json = NoFile
    /\ processed_data = NotRun
    /\ output_csv = NoFile

\* flatten_dict(record)
FlattenDict ==
    /\ pc = "flatten"
    /\ flat' = flatten_dict(record, "")
    /\ pc' = "reflatten"
    /\ UNCHANGED <<record, reflat, df_in, index, request, responses, log, appended,
                   returned, raw_json, processed_data, output_csv>>

\* flatten_dict of the result
Reflatten ==
    /\ pc = "reflatten"
    /\ reflat' = flatten_dict(flat, "")
    /\ pc' = "flattened"
    /\ UNCHANGED <<record, flat, df_in, index, request, responses, log, appended,
                   returned, raw_json, processed_data, output_csv>>

NextFD == FlattenDict \/ Reflatten

SpecFD == InitFD /\ [][NextFD]_vars

-----------------------------------------------------------------------------
(* The contract the claims measure the table against (spec, 6 and 8) *)

Vocabulary ==
    << "atm", "child abuse material", "darknet market",
       "decentralized exchange contract", "exchange", "fee", "fraud shop",
       "gambling", "high risk exchange", "high risk jurisdiction",
       "hosted wallet", "ico", "illicit actor-org",
       "infrastructure as a service", "lending contract", "merchant services",
       "mining", "mining pool", "mixing", "none", "online pharmacy", "other",
       "p2p exchange", "protocol privacy", "ransomware", "sanctions", "scam",
       "smart contract", "stolen funds", "terrorist financing",
       "token smart contract", "unnamed service" >>

ClusterColumns == <<"cluster_name", "cluster_category">>

IdentificationColumns ==
    <<"addressIdentifications_name", "addressIdentifications_category",
      "addressIdentifications_description">>

ContractColumns == <<"address", "risk">> \o ClusterColumns \o IdentificationColumns \o Vocabulary

\* process_responses has been called, on the batch `returned`
Called == processed_data # NotRun

\* ... and has returned a table
ReturnedTable == Called /\ processed_data.ok

IdsOf(d) == get(d, "addressIdentifications").val

ExposuresOf(d) == get(d, "exposures").val

\* max(1, len(addressIdentifications))
RowsOf(d) == IF Len(IdsOf(d)) > 1 THEN Len(IdsOf(d)) ELSE 1

RECURSIVE SumRows(_)
SumRows(batch) == IF batch = <<>> THEN 0 ELSE RowsOf(Head(batch)) + SumRows(Tail(batch))

\* the document each row of the table is produced from: the rows follow the
\* documents in order, RowsOf(d) rows for document d
RowSource(batch) == concat([i \in 1..Len(batch) |-> [j \in 1..RowsOf(batch[i]) |-> i]])

\* the values of the exposure entries of d whose category is c
ValuesOf(d, c) ==
    {get(ExposuresOf(d)[j].val, "value") :
        j \in {k \in 1..Len(ExposuresOf(d)) : get(ExposuresOf(d)[k].val, "category") = Str(c)}}

UniqueAddresses(batch) ==
    \A i, j \in 1..Len(batch) :
        get(batch[i], "address") = get(batch[j], "address") => i = j

\* no two documents of the batch have the same address and the same risk
UniqueAddressRisk(batch) ==
    \A i, j \in 1..Len(batch) :
        (/\ get(batch[i], "address") = get(batch[j], "address")
         /\ get(batch[i], "risk") = get(batch[j], "risk")) => i = j

-----------------------------------------------------------------------------
(* C1: the table process_responses returns has as many rows as the sum,     *)
(* over the documents of the batch, of max(1, len(addressIdentifications)), *)
(* and every document has at least one row, which carries its address.      *)
C1_RowCount ==
    ReturnedTable =>
        /\ Len(processed_data.data) = SumRows(returned)
        /\ \A i \in 1..Len(returned) :
              \E r \in 1..Len(processed_data.data) :
                 /\ RowSource(returned)[r] = i
                 /\ processed_data.data[r]["address"] = get(returned[i], "address")

\* a table for a batch of a document with no exposures and no identifications
\* and a document with two identifications
C1_Witness ==
    /\ ReturnedTable
    /\ Len(returned) = 2
    /\ Len(IdsOf(returned[1])) = 0 /\ Len(ExposuresOf(returned[1])) = 0
    /\ Len(IdsOf(returned[2])) = 2
    /\ Len(processed_data.data) = 3

-----------------------------------------------------------------------------
(* C2: for every batch of well-formed documents, the empty batch included, *)
(* process_responses returns a table whose column list is exactly the      *)
(* contracted list: address, risk, the two cluster columns, the three      *)
(* identification columns, then the 32 categories in their fixed order.    *)
C2_ColumnsEveryBatch ==
    (Called /\ \A i \in 1..Len(returned) : IsWellFormed(returned[i])) =>
        /\ processed_data.ok
        /\ processed_data.columns = ContractColumns

-----------------------------------------------------------------------------
(* C3: for a batch with unique addresses, in every row of the table and    *)
(* for every category c of the vocabulary, the cell of column c is the     *)
(* value of an exposures entry with category c of the document the row is  *)
(* produced from if that document has one, and the number 0 otherwise.     *)
C3_CategoryCells ==
    (ReturnedTable /\ UniqueAddresses(returned)) =>
        \A r \in 1..Len(processed_data.data) :
            \A n \in 1..Len(Vocabulary) :
                LET d    == returned[RowSource(returned)[r]]
                    cell == processed_data.data[r][Vocabulary[n]]
                IN  IF ValuesOf(d, Vocabulary[n]) = {}
                    THEN cell = Num(0)
                    ELSE cell \in ValuesOf(d, Vocabulary[n])

\* a table of two documents with different addresses, the first with an
\* exchange entry and the second without: the first row's exchange cell holds
\* the entry's value, the second row's holds 0
C3_Witness ==
    /\ ReturnedTable
    /\ Len(returned) = 2
    /\ UniqueAddresses(returned)
    /\ ValuesOf(returned[1], "exchange") = {Num(ExposureValue(1))}
    /\ ValuesOf(returned[2], "exchange") = {}
    /\ ExposuresOf(returned[2]) # <<>>
    /\ processed_data.data[1]["exchange"] = Num(ExposureValue(1))
    /\ processed_data.data[Len(processed_data.data)]["exchange"] = Num(0)

-----------------------------------------------------------------------------
(* C4: the list process_addresses builds holds a response for a row only   *)
(* if neither the POST nor the GET of that row returned 400 or 500.        *)
C4_ErrorRowsSkipped ==
    \A k \in 1..Len(appended) :
        \A e \in 1..Len(log) :
            log[e][2] = appended[k] => log[e][3] \notin {400, 500}

-----------------------------------------------------------------------------
(* C5: when the batch holds a document that lacks a required key, no       *)
(* exception leaves process_responses, and the table has the rows of the   *)
(* well-formed documents of the batch.                                     *)
C5_MalformedExcluded ==
    (Called /\ \E i \in 1..Len(returned) : ~IsWellFormed(returned[i])) =>
        /\ processed_data.ok
        /\ Len(processed_data.data) = SumRows(SelectSeq(returned, IsWellFormed))

-----------------------------------------------------------------------------
(* C6: after the call, the list passed to process_responses holds the same *)
(* documents, with the same keys and values, as before the call.           *)
C6_InputUnchanged == Called => responses = returned

-----------------------------------------------------------------------------
(* C7: exposure entries whose category is not in the vocabulary change     *)
(* nothing: the outcome of process_responses for a batch (the table, its   *)
(* columns and cells, or the exception) is its outcome for the batch with  *)
(* those entries removed, and no column outside the contract appears.      *)
InVocabulary(exposure) ==
    \E n \in 1..Len(Vocabulary) : get(exposure.val, "category") = Str(Vocabulary[n])

StripUnknown(batch) ==
    [i \in 1..Len(batch) |->
        IF has_key(batch[i], "exposures")
        THEN setitem(batch[i], "exposures",
                     List(SelectSeq(ExposuresOf(batch[i]), InVocabulary)))
        ELSE batch[i]]

Outcome(result) ==
    IF result.ok THEN [ok |-> TRUE, columns |-> result.columns, data |-> result.data]
    ELSE [ok |-> FALSE]

C7_UnknownCategoryDropped ==
    Called =>
        /\ Outcome(processed_data) = Outcome(process_responses(StripUnknown(returned)))
        /\ processed_data.ok =>
              \A n \in 1..Len(processed_data.columns) :
                  \E m \in 1..Len(ContractColumns) :
                      processed_data.columns[n] = ContractColumns[m]

\* a table for a batch in which a document has an nft entry before an
\* exchange entry
C7_Witness ==
    /\ ReturnedTable
    /\ Len(returned) >= 1
    /\ Len(ExposuresOf(returned[1])) = 2
    /\ ~InVocabulary(ExposuresOf(returned[1])[1])
    /\ InVocabulary(ExposuresOf(returned[1])[2])
    /\ processed_data.data[1]["exchange"] = Num(ExposureValue(2))

-----------------------------------------------------------------------------
(* C8: a document whose cluster is null and whose addressIdentifications   *)
(* is empty raises no error and has exactly one row, with null cluster and *)
(* identification columns and its own exposure values (0 where it has no   *)
(* entry) in the category columns, whatever other documents the batch      *)
(* holds.  Stated for the batches whose documents differ in address or in  *)
(* risk, the key the rows are to be joined on (C10).                       *)
NullClusterNoIds(d) == get(d, "cluster") = None /\ IdsOf(d) = <<>>

C8_NullClusterRow ==
    (/\ Called
     /\ \A i \in 1..Len(returned) : IsWellFormed(returned[i])
     /\ UniqueAddressRisk(returned)) =>
        \A i \in 1..Len(returned) :
            NullClusterNoIds(returned[i]) =>
                LET rows == {r \in 1..Len(processed_data.data) : RowSource(returned)[r] = i}
                IN  /\ processed_data.ok
                    /\ Cardinality(rows) = 1
                    /\ \A r \in rows :
                          /\ \A n \in 1..Len(ClusterColumns) :
                                processed_data.data[r][ClusterColumns[n]] = None
                          /\ \A n \in 1..Len(IdentificationColumns) :
                                processed_data.data[r][IdentificationColumns[n]] = None
                          /\ \A n \in 1..Len(Vocabulary) :
                                IF ValuesOf(returned[i], Vocabulary[n]) = {}
                                THEN processed_data.data[r][Vocabulary[n]] = Num(0)
                                ELSE processed_data.data[r][Vocabulary[n]]
                                        \in ValuesOf(returned[i], Vocabulary[n])

-----------------------------------------------------------------------------
(* C9: in main, the raw batch is in results/responses.json before          *)
(* process_responses starts, exactly as process_addresses returned it, and *)
(* it stays so whatever process_responses then does (return, or raise).    *)
C9_RawSavedFirst ==
    (pc = "parse" \/ Called) => raw_json = File(returned)

\* process_responses has raised, after it had changed a document of the list:
\* the file holds the batch as it was returned
C9_Witness ==
    /\ Called
    /\ ~processed_data.ok
    /\ responses # returned
    /\ df_in # <<>>
    /\ raw_json = File(returned)

-----------------------------------------------------------------------------
(* C10: the exposure values are joined on address and risk together: in a  *)
(* batch whose documents differ in address or in risk, every row carries   *)
(* the category values of the document that has the row's address and risk.*)
C10_JoinOnAddressAndRisk ==
    (ReturnedTable /\ UniqueAddressRisk(returned)) =>
        \A r \in 1..Len(processed_data.data) :
            \A i \in 1..Len(returned) :
                (/\ get(returned[i], "address") = processed_data.data[r]["address"]
                 /\ get(returned[i], "risk") = processed_data.data[r]["risk"]) =>
                    \A n \in 1..Len(Vocabulary) :
                        IF ValuesOf(returned[i], Vocabulary[n]) = {}
                        THEN processed_data.data[r][Vocabulary[n]] = Num(0)
                        ELSE processed_data.data[r][Vocabulary[n]]
                                \in ValuesOf(returned[i], Vocabulary[n])

-----------------------------------------------------------------------------
(* C11: for every record r, flatten_dict(flatten_dict(r)) equals           *)
(* flatten_dict(r); and for a record none of whose values is a nested      *)
(* record, flatten_dict(r) equals r.                                       *)
IsFlat(d) == \A i \in 1..Len(d) : ~isinstance_dict(d[i][2])

C11_FlattenIdempotent ==
    /\ pc \in {"reflatten", "flattened"} => (IsFlat(record) => flat = record)
    /\ pc = "flattened" => reflat = flat

\* a record with a dict nested in a nested dict has been flattened twice
C11_Witness ==
    /\ pc = "flattened"
    /\ \E i \in 1..Len(record) :
          /\ isinstance_dict(record[i][2])
          /\ ~IsFlat(record[i][2].val)
    /\ flat # record
    /\ flat # <<>>

-----------------------------------------------------------------------------
(* C12: process_addresses handles the rows one after another, in input     *)
(* order and without retry: at most one POST and one GET for a row, the    *)
(* GET only right after that row's POST returned a status other than 400   *)
(* and 500, no request for a later row before the current row is finished, *)
(* the loop ends after the last row (every row has had its POST when the   *)
(* list is returned, no request follows, and the loop does end), and the   *)
(* returned list holds at most one response for a row, in input order.     *)
Requests(method, row) == {p \in 1..Len(log) : log[p][1] = method /\ log[p][2] = row}

\* process_addresses has returned its list
HasReturned == pc \in {"save", "parse", "csv", "done"} \/ Called

OneAfterAnother ==
    /\ \A p \in 1..Len(log) : log[p][2] \in 1..Len(df_in)
    /\ \A row \in 1..Len(df_in) :
          /\ Cardinality(Requests("POST", row)) <= 1
          /\ Cardinality(Requests("GET", row)) <= 1
    /\ \A p \in 1..Len(log) :
          log[p][1] = "GET" =>
              /\ p > 1
              /\ log[p - 1][1] = "POST"
              /\ log[p - 1][2] = log[p][2]
              /\ log[p - 1][3] \notin {400, 500}
    /\ \A p, q \in 1..Len(log) : p < q => log[p][2] <= log[q][2]
    /\ \A p \in 1..Len(log) : log[p][2] <= index /\ (pc = "post" => log[p][2] < index)
    /\ \A i, j \in 1..Len(appended) : i < j => appended[i] < appended[j]
    /\ \A i \in 1..Len(appended) : Requests("GET", appended[i]) # {}
    /\ HasReturned =>
          /\ \A row \in 1..Len(df_in) : Cardinality(Requests("POST", row)) = 1
          /\ Len(returned) = Len(appended)
          /\ Len(returned) <= Len(df_in)
          /\ \A i \in 1..Len(returned) :
                has_key(returned[i], "address") =>
                    get(returned[i], "address") = Str(df_in[appended[i]])

C12_SequentialNoRetry ==
    /\ []OneAfterAnother
    /\ [][pc \notin {"post", "get"} => log' = log /\ appended' = appended]_vars
    /\ <>(pc \notin {"post", "get"})

\* two rows: the POST of one returned 400 or 500, the other row was fetched,
\* and the list has been returned
C12_Witness ==
    /\ HasReturned
    /\ Len(df_in) = 2
    /\ \E p \in 1..Len(log) : log[p][1] = "POST" /\ log[p][3] \in {400, 500}
    /\ Len(log) = 3
    /\ Len(returned) = 1

-----------------------------------------------------------------------------
(* C13: when a document has two or more exposure entries of one vocabulary *)
(* category, process_responses raises no error and the category column of  *)
(* the document's rows holds the value of the last such entry (not the sum *)
(* of the entries, not the first one's value).  Stated for the batches of  *)
(* well-formed documents that differ in address or in risk.                *)
EntriesOf(d, c) ==
    {j \in 1..Len(ExposuresOf(d)) : get(ExposuresOf(d)[j].val, "category") = Str(c)}

\* the value of the last entry of d whose category is c
LastValue(d, c) ==
    LET last == CHOOSE j \in EntriesOf(d, c) : \A k \in EntriesOf(d, c) : k <= j
    IN  get(ExposuresOf(d)[last].val, "value")

C13_LastEntryWins ==
    (/\ Called
     /\ \A i \in 1..Len(returned) : IsWellFormed(returned[i])
     /\ UniqueAddressRisk(returned)) =>
        \A i \in 1..Len(returned) :
            \A n \in 1..Len(Vocabulary) :
                Cardinality(EntriesOf(returned[i], Vocabulary[n])) >= 2 =>
                    /\ processed_data.ok
                    /\ \E r \in 1..Len(processed_data.data) : RowSource(returned)[r] = i
                    /\ \A r \in 1..Len(processed_data.data) :
                          RowSource(returned)[r] = i =>
                              processed_data.data[r][Vocabulary[n]]
                                  = LastValue(returned[i], Vocabulary[n])

====
